---- MODULE Spec2Model ----
(***************************************************************************)
(* Model of the Clifford tableau of src/tableau.py: the class Tableau, its *)
(* 2n x (2n+1) integer matrix and the gate methods hadamard, phase, cnot   *)
(* and apply_gate, which update the matrix in place row by row.            *)
(*                                                                         *)
(* The matrix is a numpy array, so a column index j is accepted when       *)
(* -(2n+1) <= j <= 2n, a negative index counting from the last column,     *)
(* and any other index raises IndexError at the access that uses it.       *)
(***************************************************************************)
EXTENDS Integers, Sequences, FiniteSets, TLC

\* Largest qubit count a tableau is constructed with.
MaxQubits == 2
\* Longest sequence of calls of any kind made on a freshly constructed tableau.
MaxCalls == 2
\* Longest sequence of gate calls within the input constraints made on a
\* freshly constructed tableau.
MaxGates == 4
\* Longest run of one repeated call made on an arbitrary matrix.
MaxReps == 4
\* Largest qubit count of a tableau on which a pair of gates on disjoint qubits
\* is applied.
MaxPairQubits == 3
\* Tableau(n) is also tried with n = 0 and with negative n down to -MaxNegative.
MaxNegative == 1

VARIABLES
    n_qubits,   \* Tableau.n_qubits
    matrix,     \* Tableau.matrix, rows 0..2n-1, columns 0..2n
    pre,        \* the matrix as it was before the last call
    base,       \* the matrix before the first call of the current run of identical calls
    last,       \* the last call: method, gate name, qubit arguments
    prev,       \* in a "pair", the call before the last
    reps,       \* how many times in succession the last call has been made
    err,        \* the exception the last call ended with, "none" if it returned
    calls,      \* the number of calls made so far
    valid,      \* every call so far was a gate call with indices in [0,n) and control # target
    script      \* the caller: "any" calls, "gates" within the input constraints
                \* only, "repeat" of one call, or a "pair" of gates on disjoint qubits

vars == <<n_qubits, matrix, pre, base, last, prev, reps, err, calls, valid, script>>

----------------------------------------------------------------------------
\* Bits and numpy indexing

Bit == {0, 1}

\* a + b, what += would do where the code uses ^=
Xor_Adds(a, b) == a + b

\* a ^ b on bits
Xor(a, b) == (a + b) % 2

Rows(n) == 0 .. (2 * n - 1)
Cols(n) == 0 .. (2 * n)

\* numpy accepts the column index j of a row of 2n+1 entries
IndexOk(j, n) == j >= -(2 * n + 1) /\ j <= 2 * n

\* the column a numpy index denotes: negative indices count from the end
Col(j, n) == IF j < 0 THEN j + 2 * n + 1 ELSE j

Returned(m) == [m |-> m, err |-> "none"]
Raised(m, e) == [m |-> m, err |-> e]

----------------------------------------------------------------------------
\* Construction

\* the initial matrix with the stabilizer identity block written into the X
\* columns (matrix[n:, :n]) where the code writes it into the Z columns
InitialMatrix_StabilizersInX(n) ==
    [r \in Rows(n) |->
        [c \in Cols(n) |->
            IF r < n /\ c < n
            THEN (IF c = r THEN 1 ELSE 0)
            ELSE IF r >= n /\ c < n
            THEN (IF c = r - n THEN 1 ELSE 0)
            ELSE 0]]

\* np.zeros((2n, 2n+1)) with the two identity blocks written by _initialize_tableau
InitialMatrix(n) ==
    [r \in Rows(n) |->
        [c \in Cols(n) |->
            IF r < n /\ c < n
            THEN (IF c = r THEN 1 ELSE 0)                    \* matrix[:n, :n] = eye(n)
            ELSE IF r >= n /\ c >= n /\ c < 2 * n
            THEN (IF c - n = r - n THEN 1 ELSE 0)            \* matrix[n:, n:2n] = eye(n)
            ELSE 0]]

\* Tableau(n): __init__ allocates np.zeros((2n, 2n+1)), which raises ValueError
\* for a negative dimension, and then writes the identity blocks
Tableau(n) ==
    IF 2 * n < 0 \/ 2 * n + 1 < 0
    THEN Raised(<<>>, "ValueError")                  \* negative dimensions are not allowed
    ELSE Returned(InitialMatrix(n))

----------------------------------------------------------------------------
\* The gates, row by row as the loops of the methods run. Each operator takes
\* the matrix as the loop finds it at `row` and gives the matrix and the
\* exception the method ends with.

\* hadamard's row step toggling the phase bit when either bit is set (or)
\* where the code requires both (and)
hadamardRow_FlipsOnEither(m, n, qubit, row) ==
    IF ~IndexOk(qubit, n) THEN Raised(m, "IndexError")
    ELSE IF ~IndexOk(n + qubit, n) THEN Raised(m, "IndexError")
    ELSE
        LET x  == m[row][Col(qubit, n)]
            z  == m[row][Col(n + qubit, n)]
            m1 == [m EXCEPT ![row][Col(qubit, n)] = z]
            m2 == [m1 EXCEPT ![row][Col(n + qubit, n)] = x]
        IN  IF x = 1 \/ z = 1
            THEN Returned([m2 EXCEPT ![row][2 * n] = Xor(@, 1)])
            ELSE Returned(m2)

\* hadamard's row step with the swap written without the temporaries: the Z
\* bit is copied from the X bit that was just overwritten
hadamardRow_Overwritten(m, n, qubit, row) ==
    IF ~IndexOk(qubit, n) THEN Raised(m, "IndexError")
    ELSE IF ~IndexOk(n + qubit, n) THEN Raised(m, "IndexError")
    ELSE
        LET x  == m[row][Col(qubit, n)]
            z  == m[row][Col(n + qubit, n)]
            m1 == [m EXCEPT ![row][Col(qubit, n)] = z]
            m2 == [m1 EXCEPT ![row][Col(n + qubit, n)] = m1[row][Col(qubit, n)]]
        IN  IF x = 1 /\ z = 1
            THEN Returned([m2 EXCEPT ![row][2 * n] = Xor(@, 1)])
            ELSE Returned(m2)

\* one iteration of the loop of Tableau.hadamard
hadamardRow(m, n, qubit, row) ==
    IF ~IndexOk(qubit, n) THEN Raised(m, "IndexError")               \* x = matrix[row, qubit]
    ELSE IF ~IndexOk(n + qubit, n) THEN Raised(m, "IndexError")      \* z = matrix[row, n + qubit]
    ELSE
        LET x  == m[row][Col(qubit, n)]
            z  == m[row][Col(n + qubit, n)]
            m1 == [m EXCEPT ![row][Col(qubit, n)] = z]
            m2 == [m1 EXCEPT ![row][Col(n + qubit, n)] = x]
        IN  IF x = 1 /\ z = 1
            THEN Returned([m2 EXCEPT ![row][2 * n] = Xor(@, 1)])
            ELSE Returned(m2)

\* Tableau.hadamard, from row `row` on
RECURSIVE hadamard(_, _, _, _)
hadamard(m, n, qubit, row) ==
    IF row >= 2 * n THEN Returned(m)
    ELSE LET r == hadamardRow(m, n, qubit, row)
         IN  IF r.err # "none" THEN r ELSE hadamard(r.m, n, qubit, row + 1)

\* phase's row step toggling the phase bit only when the row holds Y at the
\* qubit (x = z = 1) where the code toggles it whenever x = 1
phaseRow_SignOnY(m, n, qubit, row) ==
    IF ~IndexOk(qubit, n) THEN Raised(m, "IndexError")
    ELSE IF m[row][Col(qubit, n)] = 1
    THEN
        IF ~IndexOk(n + qubit, n) THEN Raised(m, "IndexError")
        ELSE
            LET m1 == [m EXCEPT ![row][Col(n + qubit, n)] = Xor(@, 1)]
            IN  IF m[row][Col(n + qubit, n)] = 1
                THEN Returned([m1 EXCEPT ![row][2 * n] = Xor(@, 1)])
                ELSE Returned(m1)
    ELSE Returned(m)

\* phase's row step setting the phase bit (= 1) where the code toggles it
phaseRow_SetsSign(m, n, qubit, row) ==
    IF ~IndexOk(qubit, n) THEN Raised(m, "IndexError")
    ELSE IF m[row][Col(qubit, n)] = 1
    THEN
        IF ~IndexOk(n + qubit, n) THEN Raised(m, "IndexError")
        ELSE
            LET m1 == [m EXCEPT ![row][Col(n + qubit, n)] = Xor(@, 1)]
            IN  Returned([m1 EXCEPT ![row][2 * n] = 1])
    ELSE Returned(m)

\* phase's row step setting the Z bit (|= 1) where the code toggles it
phaseRow_SetsZ(m, n, qubit, row) ==
    IF ~IndexOk(qubit, n) THEN Raised(m, "IndexError")
    ELSE IF m[row][Col(qubit, n)] = 1
    THEN
        IF ~IndexOk(n + qubit, n) THEN Raised(m, "IndexError")
        ELSE
            LET m1 == [m EXCEPT ![row][Col(n + qubit, n)] = 1]
            IN  Returned([m1 EXCEPT ![row][2 * n] = Xor(@, 1)])
    ELSE Returned(m)

\* one iteration of the loop of Tableau.phase
phaseRow(m, n, qubit, row) ==
    IF ~IndexOk(qubit, n) THEN Raised(m, "IndexError")               \* matrix[row, qubit] == 1
    ELSE IF m[row][Col(qubit, n)] = 1
    THEN
        IF ~IndexOk(n + qubit, n) THEN Raised(m, "IndexError")       \* matrix[row, n + qubit] ^= 1
        ELSE
            LET m1 == [m EXCEPT ![row][Col(n + qubit, n)] = Xor(@, 1)]
            IN  Returned([m1 EXCEPT ![row][2 * n] = Xor(@, 1)])
    ELSE Returned(m)

\* Tableau.phase, from row `row` on
RECURSIVE phase(_, _, _, _)
phase(m, n, qubit, row) ==
    IF row >= 2 * n THEN Returned(m)
    ELSE LET r == phaseRow(m, n, qubit, row)
         IN  IF r.err # "none" THEN r ELSE phase(r.m, n, qubit, row + 1)

\* cnot's first row step propagating the X bit from control to target where
\* the code propagates it from target to control
cnotXRow_Forward(m, n, control, target, row) ==
    IF ~IndexOk(control, n) THEN Raised(m, "IndexError")
    ELSE IF m[row][Col(control, n)] = 1
    THEN
        IF ~IndexOk(target, n) THEN Raised(m, "IndexError")
        ELSE Returned([m EXCEPT ![row][Col(target, n)] = Xor(@, 1)])
    ELSE Returned(m)

\* one iteration of the first loop of Tableau.cnot
cnotXRow(m, n, control, target, row) ==
    IF ~IndexOk(target, n) THEN Raised(m, "IndexError")              \* matrix[row, target] == 1
    ELSE IF m[row][Col(target, n)] = 1
    THEN
        IF ~IndexOk(control, n) THEN Raised(m, "IndexError")         \* matrix[row, control] ^= 1
        ELSE Returned([m EXCEPT ![row][Col(control, n)] = Xor(@, 1)])
    ELSE Returned(m)

\* the first loop of Tableau.cnot, from row `row` on
RECURSIVE cnotX(_, _, _, _, _)
cnotX(m, n, control, target, row) ==
    IF row >= 2 * n THEN Returned(m)
    ELSE LET r == cnotXRow(m, n, control, target, row)
         IN  IF r.err # "none" THEN r ELSE cnotX(r.m, n, control, target, row + 1)

\* cnot's second row step branching on the X bit of the control (column
\* control) where the code reads its Z bit (column n + control)
cnotZRow_ReadsX(m, n, control, target, row) ==
    IF ~IndexOk(control, n) THEN Raised(m, "IndexError")
    ELSE IF m[row][Col(control, n)] = 1
    THEN
        IF ~IndexOk(n + target, n) THEN Raised(m, "IndexError")
        ELSE Returned([m EXCEPT ![row][Col(n + target, n)] = Xor(@, 1)])
    ELSE Returned(m)

\* one iteration of the second loop of Tableau.cnot
cnotZRow(m, n, control, target, row) ==
    IF ~IndexOk(n + control, n) THEN Raised(m, "IndexError")         \* matrix[row, n + control] == 1
    ELSE IF m[row][Col(n + control, n)] = 1
    THEN
        IF ~IndexOk(n + target, n) THEN Raised(m, "IndexError")      \* matrix[row, n + target] ^= 1
        ELSE Returned([m EXCEPT ![row][Col(n + target, n)] = Xor(@, 1)])
    ELSE Returned(m)

\* the second loop of Tableau.cnot, from row `row` on
RECURSIVE cnotZ(_, _, _, _, _)
cnotZ(m, n, control, target, row) ==
    IF row >= 2 * n THEN Returned(m)
    ELSE LET r == cnotZRow(m, n, control, target, row)
         IN  IF r.err # "none" THEN r ELSE cnotZ(r.m, n, control, target, row + 1)

\* Tableau.cnot: the X loop, then the Z loop on what the X loop left
cnot(m, n, control, target) ==
    LET first == cnotX(m, n, control, target, 0)
    IN  IF first.err # "none" THEN first
        ELSE cnotZ(first.m, n, control, target, 0)

----------------------------------------------------------------------------
\* Gate dispatch. A gate name is the tuple of its characters.

UpperCase == <<"A", "C", "D", "E", "H", "M", "N", "O", "P", "R", "S", "T", "X">>
LowerCase == <<"a", "c", "d", "e", "h", "m", "n", "o", "p", "r", "s", "t", "x">>

Letters == {UpperCase[i] : i \in DOMAIN UpperCase} \cup {LowerCase[i] : i \in DOMAIN LowerCase}

\* str.lower on one character
LowerChar ==
    [ch \in Letters |->
        IF \E i \in DOMAIN UpperCase : UpperCase[i] = ch
        THEN LowerCase[CHOOSE i \in DOMAIN UpperCase : UpperCase[i] = ch]
        ELSE ch]

\* str.lower
Lower(gate) == [i \in DOMAIN gate |-> LowerChar[gate[i]]]

\* qubits[k] of the argument tuple, k counted from 0
HasQubit(qubits, k) == k < Len(qubits)

\* apply_gate falling through without raising when no branch matches the name
apply_gate_FallsThrough(m, n, gate, qubits) ==
    LET lower == Lower(gate)
    IN  IF lower = <<"c", "n", "o", "t">> \/ lower = <<"c", "x">>
        THEN IF ~HasQubit(qubits, 0) \/ ~HasQubit(qubits, 1)
             THEN Raised(m, "IndexError")
             ELSE cnot(m, n, qubits[1], qubits[2])
        ELSE IF lower = <<"h">> \/ lower = <<"h", "a", "d", "a", "m", "a", "r", "d">>
        THEN IF ~HasQubit(qubits, 0)
             THEN Raised(m, "IndexError")
             ELSE hadamard(m, n, qubits[1], 0)
        ELSE IF lower = <<"s">> \/ lower = <<"p", "h", "a", "s", "e">>
        THEN IF ~HasQubit(qubits, 0)
             THEN Raised(m, "IndexError")
             ELSE phase(m, n, qubits[1], 0)
        ELSE Returned(m)

\* Tableau.apply_gate
apply_gate(m, n, gate, qubits) ==
    LET lower == Lower(gate)                                         \* gate.lower()
    IN  IF lower = <<"c", "n", "o", "t">> \/ lower = <<"c", "x">>
        THEN IF ~HasQubit(qubits, 0) \/ ~HasQubit(qubits, 1)
             THEN Raised(m, "IndexError")                            \* qubits[0], qubits[1]
             ELSE cnot(m, n, qubits[1], qubits[2])
        ELSE IF lower = <<"h">> \/ lower = <<"h", "a", "d", "a", "m", "a", "r", "d">>
        THEN IF ~HasQubit(qubits, 0)
             THEN Raised(m, "IndexError")                            \* qubits[0]
             ELSE hadamard(m, n, qubits[1], 0)
        ELSE IF lower = <<"s">> \/ lower = <<"p", "h", "a", "s", "e">>
        THEN IF ~HasQubit(qubits, 0)
             THEN Raised(m, "IndexError")                            \* qubits[0]
             ELSE phase(m, n, qubits[1], 0)
        ELSE Raised(m, "ValueError")                                 \* Unsupported gate

----------------------------------------------------------------------------
\* Row composition. The class Tableau defines no rowsum, so tableau.rowsum(h, i)
\* fails at the attribute lookup, whatever h and i are.

rowsum(m, n, h, i) == Raised(m, "AttributeError")

----------------------------------------------------------------------------
\* The caller

\* the qubit indices a caller passes: those in range, and -1 and n + 1
Idx(n) == (-1 .. (n - 1)) \cup {n + 1}

\* gate names passed to apply_gate: every alias, in some capitalisation, and
\* a name that is no alias
GateNames ==
    { <<"h">>, <<"H", "a", "d", "a", "m", "a", "r", "d">>,
      <<"S">>, <<"p", "h", "a", "s", "e">>,
      <<"C", "N", "O", "T">>, <<"c", "x">>,
      <<"t">> }

\* the argument tuples passed to apply_gate after the gate name: none, one
\* index of any kind, or two indices in range
QubitLists(n) ==
    {<<>>} \cup {<<a>> : a \in Idx(n)} \cup {<<a, b>> : a, b \in 0 .. (n - 1)}

\* the 1-based row numbers a caller passes to rowsum: the first destabilizer
\* and the stabilizer paired with it
RowIdx(n) == {1, n + 1}

NoCall == [op |-> "none", gate |-> <<>>, qubits |-> <<>>]
HadamardCall(q) == [op |-> "hadamard", gate |-> <<>>, qubits |-> <<q>>]
PhaseCall(q) == [op |-> "phase", gate |-> <<>>, qubits |-> <<q>>]
CnotCall(c, t) == [op |-> "cnot", gate |-> <<>>, qubits |-> <<c, t>>]
ApplyGateCall(g, qs) == [op |-> "apply_gate", gate |-> g, qubits |-> qs]
RowsumCall(h, i) == [op |-> "rowsum", gate |-> <<>>, qubits |-> <<h, i>>]

\* what the call does to matrix m of an n-qubit tableau
Run(call, m, n) ==
    CASE call.op = "hadamard"   -> hadamard(m, n, call.qubits[1], 0)
      [] call.op = "phase"      -> phase(m, n, call.qubits[1], 0)
      [] call.op = "cnot"       -> cnot(m, n, call.qubits[1], call.qubits[2])
      [] call.op = "apply_gate" -> apply_gate(m, n, call.gate, call.qubits)
      [] call.op = "rowsum"     -> rowsum(m, n, call.qubits[1], call.qubits[2])

InRange(q, n) == q >= 0 /\ q < n

\* the method apply_gate resolves the name to, "none" if it resolves to none
Resolved(gate) ==
    LET lower == Lower(gate)
    IN  IF lower \in {<<"c", "n", "o", "t">>, <<"c", "x">>} THEN "cnot"
        ELSE IF lower \in {<<"h">>, <<"h", "a", "d", "a", "m", "a", "r", "d">>} THEN "hadamard"
        ELSE IF lower \in {<<"s">>, <<"p", "h", "a", "s", "e">>} THEN "phase"
        ELSE "none"

\* the gate a call applies, whether made directly or through apply_gate
GateOf(call) == IF call.op = "apply_gate" THEN Resolved(call.gate) ELSE call.op

\* a gate call within the input constraints: indices in [0,n), control # target
ValidCall(call, n) ==
    CASE GateOf(call) \in {"hadamard", "phase"} ->
            Len(call.qubits) >= 1 /\ InRange(call.qubits[1], n)
      [] GateOf(call) = "cnot" ->
            /\ Len(call.qubits) >= 2
            /\ InRange(call.qubits[1], n) /\ InRange(call.qubits[2], n)
            /\ call.qubits[1] # call.qubits[2]
      [] OTHER -> FALSE

\* the two calls have no qubit argument in common
Disjoint(a, b) ==
    \A j \in DOMAIN a.qubits, k \in DOMAIN b.qubits : a.qubits[j] # b.qubits[k]

\* the caller makes up to MaxCalls calls of any kind, or up to MaxGates gate
\* calls within the input constraints, or one call up to MaxReps times, or two
\* gate calls within the input constraints on disjoint qubits
Repeating == script = "repeat" /\ calls > 0

Pairing == script = "pair" /\ calls > 0

MayCall(call) ==
    CASE script = "any"    -> calls < MaxCalls
      [] script = "gates"  -> calls < MaxGates /\ ValidCall(call, n_qubits)
                                               /\ call.op # "apply_gate"
      [] script = "repeat" -> calls < MaxReps /\ (calls = 0 \/ call = last)
      [] script = "pair"   -> /\ calls < 2
                              /\ ValidCall(call, n_qubits)
                              /\ call.op # "apply_gate"
                              /\ (calls = 0 \/ Disjoint(call, last))

\* the argument tuples the caller may pass to method op next, out of `all`
QubitArgs(op, all) ==
    IF Repeating
    THEN (IF last.op = op THEN {last.qubits} ELSE {})
    ELSE all

\* the gate names the caller may pass to apply_gate next
GateArgs ==
    IF Repeating
    THEN (IF last.op = "apply_gate" THEN {last.gate} ELSE {})
    ELSE GateNames

\* the constructor returned a Tableau for the caller to call methods on
Constructed == ~(calls = 0 /\ err # "none")

Do(call) ==
    /\ Constructed
    /\ MayCall(call)
    /\ \E r \in {Run(call, matrix, n_qubits)} :
           /\ matrix' = r.m
           /\ err' = r.err
    /\ pre' = matrix
    /\ base' = IF call = last \/ Pairing THEN base ELSE matrix
    /\ reps' = IF call = last THEN reps + 1 ELSE 1
    /\ last' = call
    /\ prev' = IF script = "pair" THEN last ELSE NoCall
    /\ calls' = calls + 1
    /\ valid' = (valid /\ ValidCall(call, n_qubits))
    /\ UNCHANGED <<n_qubits, script>>

Hadamard ==
    \E qs \in QubitArgs("hadamard", {<<q>> : q \in Idx(n_qubits)}) :
        Do(HadamardCall(qs[1]))

Phase ==
    \E qs \in QubitArgs("phase", {<<q>> : q \in Idx(n_qubits)}) :
        Do(PhaseCall(qs[1]))

Cnot ==
    \E qs \in QubitArgs("cnot", {<<c, t>> : c, t \in Idx(n_qubits)}) :
        Do(CnotCall(qs[1], qs[2]))

ApplyGate ==
    \E g \in GateArgs, qs \in QubitArgs("apply_gate", QubitLists(n_qubits)) :
        Do(ApplyGateCall(g, qs))

Rowsum ==
    \E qs \in QubitArgs("rowsum", {<<h, i>> : h, i \in RowIdx(n_qubits)}) :
        Do(RowsumCall(qs[1], qs[2]))

Next == Hadamard \/ Phase \/ Cnot \/ ApplyGate \/ Rowsum

Fresh(n) ==
    /\ n_qubits = n
    /\ pre = matrix
    /\ base = matrix
    /\ last = NoCall
    /\ prev = NoCall
    /\ reps = 0
    /\ err = "none"
    /\ calls = 0
    /\ valid = (matrix = InitialMatrix(n))

\* Tableau(n), n in 1 .. MaxQubits, and a caller making a sequence of calls
Init ==
    \E n \in 1 .. MaxQubits :
        /\ matrix = InitialMatrix(n)
        /\ script \in {"any", "gates"}
        /\ Fresh(n)

Spec == Init /\ [][Next]_vars

\* the matrices of a tableau one of whose rows has been overwritten with any bits
AnyMatrix(n) ==
    { [InitialMatrix(n) EXCEPT ![r] = w] : r \in Rows(n), w \in [Cols(n) -> Bit] }

\* a tableau holding any such matrix, and a caller repeating one call
InitAny ==
    \E n \in 1 .. MaxQubits :
        /\ matrix \in AnyMatrix(n)
        /\ script = "repeat"
        /\ Fresh(n)

SpecAny == InitAny /\ [][Next]_vars

\* the calls made on the gate methods themselves
NextGates == Hadamard \/ Phase \/ Cnot

\* the matrices of a tableau whose first row has been overwritten with any bits
AnyFirstRow(n) ==
    { [InitialMatrix(n) EXCEPT ![0] = w] : w \in [Cols(n) -> Bit] }

\* a tableau of up to MaxPairQubits qubits holding any such matrix, and a
\* caller applying two gates on disjoint qubits
InitPair ==
    \E n \in 1 .. MaxPairQubits :
        /\ matrix \in AnyFirstRow(n)
        /\ script = "pair"
        /\ Fresh(n)

SpecPair == InitPair /\ [][NextGates]_vars

\* Tableau(n) for any n in -MaxNegative .. MaxQubits, zero and negative counts
\* included, and a caller making a sequence of calls on what it returns
InitNew ==
    \E n \in (-MaxNegative) .. MaxQubits :
        \E r \in {Tableau(n)} :
            /\ n_qubits = n
            /\ matrix = r.m
            /\ err = r.err
            /\ pre = matrix
            /\ base = matrix
            /\ last = NoCall
            /\ prev = NoCall
            /\ reps = 0
            /\ calls = 0
            /\ valid = (r.err = "none")
            /\ script \in {"any", "gates"}

SpecNew == InitNew /\ [][Next]_vars

----------------------------------------------------------------------------
\* Properties

\* sum over qubits k < upto of x_i[k]*z_j[k] + z_i[k]*x_j[k]
RECURSIVE SymplecticSum(_, _, _, _, _)
SymplecticSum(m, n, i, j, upto) ==
    IF upto = 0 THEN 0
    ELSE SymplecticSum(m, n, i, j, upto - 1)
         + m[i][upto - 1] * m[j][n + upto - 1]
         + m[i][n + upto - 1] * m[j][upto - 1]

SymplecticProduct(m, n, i, j) == SymplecticSum(m, n, i, j, n) % 2

\* the last call was made on the method itself, not through apply_gate
Direct == last.op \in {"hadamard", "phase", "cnot"}

\* the last call applied `gate` within the input constraints
Applied(gate) == GateOf(last) = gate /\ ValidCall(last, n_qubits)

\* C1: from a fresh tableau, under gate calls with indices in [0,n) and
\* control # target, rows i and j have symplectic product 1 exactly when
\* they are a destabilizer/stabilizer pair (|i - j| = n), and 0 otherwise.
C1_CommutationStructure ==
    valid =>
        \A i, j \in Rows(n_qubits) :
            SymplecticProduct(matrix, n_qubits, i, j)
                = IF i - j = n_qubits \/ j - i = n_qubits THEN 1 ELSE 0

\* C1 witness: three or more valid gate calls, the last a cnot that changed
\* the matrix, have left some row with its phase bit set.
C1_Witness ==
    /\ valid /\ calls >= 3
    /\ last.op = "cnot" /\ matrix # pre
    /\ \E r \in Rows(n_qubits) : matrix[r][2 * n_qubits] = 1

\* C2: hadamard, phase and cnot called with a qubit index outside
\* [0, n_qubits) raise IndexError and leave the matrix as it was.
C2_OutOfRangeRejected ==
    (Direct /\ \E k \in DOMAIN last.qubits : ~InRange(last.qubits[k], n_qubits))
        => (err = "IndexError" /\ matrix = pre)

\* C3: whenever a call ends by raising an error, the matrix is the matrix
\* before the call.
C3_AllOrNothing ==
    (last.op # "none" /\ err # "none") => matrix = pre

\* C4: cnot(control, target) with control = target, in range, is rejected
\* with an invalid-argument error (ValueError) and leaves the matrix unchanged.
C4_SameQubitRejected ==
    (last.op = "cnot" /\ last.qubits[1] = last.qubits[2]
                      /\ InRange(last.qubits[1], n_qubits))
        => (err = "ValueError" /\ matrix = pre)

\* C5: for n = 1, phase(0) on the fresh tableau turns row 0 from
\* (X=1, Z=0, phase=0) into (X=1, Z=1, phase=0).
C5_PhaseOnBasisState ==
    (n_qubits = 1 /\ pre = InitialMatrix(1) /\ last = PhaseCall(0))
        => (matrix[0][0] = 1 /\ matrix[0][1] = 1 /\ matrix[0][2] = 0)

\* C6: for n = 2, cnot(0, 1) on the fresh tableau makes the X block of row 0
\* equal to 1 1 and leaves the X block of rows 2 and 3 unchanged.
C6_CnotOnBasisState ==
    (n_qubits = 2 /\ pre = InitialMatrix(2) /\ last = CnotCall(0, 1))
        => /\ matrix[0][0] = 1 /\ matrix[0][1] = 1
           /\ \A r \in {2, 3} : \A c \in {0, 1} : matrix[r][c] = pre[r][c]

\* C7: hadamard(q), q in range, applied twice in succession gives back the
\* matrix before the first application, phase column included.
C7_HadamardTwice ==
    (Applied("hadamard") /\ reps = 2) => matrix = base

\* C7 witness: the second of two hadamard(q) on a matrix with a row holding
\* Y at q, whose phase bit the first application flipped.
C7_Witness ==
    /\ Applied("hadamard") /\ reps = 2
    /\ \E r \in Rows(n_qubits) :
           /\ base[r][last.qubits[1]] = 1
           /\ base[r][n_qubits + last.qubits[1]] = 1
           /\ pre[r][2 * n_qubits] # base[r][2 * n_qubits]
    /\ \E r \in Rows(n_qubits) :
           base[r][last.qubits[1]] # base[r][n_qubits + last.qubits[1]]

\* C8: phase(q), q in range, applied four times in succession gives back
\* the matrix before the first application, phase column included.
C8_PhaseFourTimes ==
    (Applied("phase") /\ reps = 4) => matrix = base

\* C8 witness: the fourth of four phase(q) on a matrix with a row whose X bit
\* at q is set, so that every application changed the matrix.
C8_Witness ==
    /\ Applied("phase") /\ reps = 4
    /\ matrix # pre
    /\ \E r \in Rows(n_qubits) : base[r][last.qubits[1]] = 1

\* C9: cnot(c, t), c # t in range, applied twice in succession gives back
\* the matrix before the first application.
C9_CnotTwice ==
    (Applied("cnot") /\ reps = 2) => matrix = base

\* C9 witness: the second of two cnot(c, t) on a matrix one of whose rows has
\* the X bit of t and the Z bit of c set, so that both loops changed it.
C9_Witness ==
    /\ Applied("cnot") /\ reps = 2
    /\ \E r \in Rows(n_qubits) :
           /\ base[r][last.qubits[2]] = 1
           /\ base[r][n_qubits + last.qubits[1]] = 1
           /\ pre[r] # base[r]

\* C10: hadamard(q), q in range, leaves every row with its X bit at q and
\* its Z bit at n+q exchanged, its phase bit toggled exactly when both were
\* 1, and every other entry unchanged; for n = 1 it maps the stabilizer row
\* of the fresh tableau, (X=0, Z=1, phase=0), to (X=1, Z=0, phase=0).
C10_HadamardRows ==
    Applied("hadamard") =>
        LET n == n_qubits
            q == last.qubits[1]
        IN  /\ err = "none"
            /\ \A r \in Rows(n) :
                   /\ matrix[r][q] = pre[r][n + q]
                   /\ matrix[r][n + q] = pre[r][q]
                   /\ matrix[r][2 * n]
                          = Xor(pre[r][2 * n], pre[r][q] * pre[r][n + q])
                   /\ \A c \in Cols(n) \ {q, n + q, 2 * n} :
                          matrix[r][c] = pre[r][c]
            /\ (n = 1 /\ pre = InitialMatrix(1))
                   => (matrix[1][0] = 1 /\ matrix[1][1] = 0 /\ matrix[1][2] = 0)

\* C10 witness: hadamard(q) has run on a 2-qubit matrix with a row holding Y
\* at q and a row holding X or Z at q.
C10_Witness ==
    /\ Applied("hadamard") /\ n_qubits = 2
    /\ \E r \in Rows(n_qubits) :
           pre[r][last.qubits[1]] = 1 /\ pre[r][n_qubits + last.qubits[1]] = 1
    /\ \E r \in Rows(n_qubits) :
           pre[r][last.qubits[1]] # pre[r][n_qubits + last.qubits[1]]

\* C11: for every n >= 1 the matrix of a freshly constructed Tableau(n) has 2n
\* rows and 2n+1 columns; rows [0,n) have X block = identity and Z block = 0,
\* rows [n,2n) have X block = 0 and Z block = identity; every phase bit is 0.
C11_InitialMatrix ==
    (calls = 0 /\ n_qubits >= 1) =>
        LET n == n_qubits
        IN  /\ DOMAIN matrix = 0 .. (2 * n - 1)
            /\ \A r \in 0 .. (2 * n - 1) :
                   /\ DOMAIN matrix[r] = 0 .. (2 * n)
                   /\ matrix[r][2 * n] = 0
                   /\ \A k \in 0 .. (n - 1) :
                          IF r < n
                          THEN /\ matrix[r][k] = (IF k = r THEN 1 ELSE 0)
                               /\ matrix[r][n + k] = 0
                          ELSE /\ matrix[r][k] = 0
                               /\ matrix[r][n + k] = (IF k = r - n THEN 1 ELSE 0)

\* C11 witness: a fresh 2-qubit tableau, no call made on it yet.
C11_Witness ==
    /\ calls = 0 /\ n_qubits = 2 /\ err = "none"
    /\ matrix[1][1] = 1 /\ matrix[3][3] = 1

\* C12: constructing a Tableau with n_qubits = 0 or negative fails with an
\* error; no Tableau, in particular no 0-row tableau, is produced.
C12_NonPositiveRejected ==
    (calls = 0 /\ n_qubits <= 0) => err # "none"

\* C13: apply_gate with a gate name that is, case-insensitively, none of h,
\* hadamard, s, phase, cnot, cx raises ValueError (unsupported gate) and
\* leaves the matrix unchanged, whatever the matrix and the qubit list.
C13_UnknownGateRejected ==
    (last.op = "apply_gate"
        /\ Lower(last.gate) \notin
               { <<"h">>, <<"h", "a", "d", "a", "m", "a", "r", "d">>,
                 <<"s">>, <<"p", "h", "a", "s", "e">>,
                 <<"c", "n", "o", "t">>, <<"c", "x">> })
        => (err = "ValueError" /\ matrix = pre)

\* C13 witness: apply_gate has been called with the name "t" and no qubits on
\* a matrix that is not the initial one.
C13_Witness ==
    /\ last = ApplyGateCall(<<"t">>, <<>>)
    /\ err = "ValueError"
    /\ pre # InitialMatrix(n_qubits)

\* the phase contribution g(x1, z1, x2, z2) of one qubit to R_h * R_i
G(x1, z1, x2, z2) ==
    CASE x1 = 0 /\ z1 = 0 -> 0
      [] x1 = 1 /\ z1 = 1 -> z2 - x2
      [] x1 = 1 /\ z1 = 0 -> z2 * (2 * x2 - 1)
      [] x1 = 0 /\ z1 = 1 -> x2 * (1 - 2 * z2)

\* the sum of g over the qubits k < upto of rows h and i (0-based) of m
RECURSIVE GSum(_, _, _, _, _)
GSum(m, n, h, i, upto) ==
    IF upto = 0 THEN 0
    ELSE GSum(m, n, h, i, upto - 1)
         + G(m[h][upto - 1], m[h][n + upto - 1], m[i][upto - 1], m[i][n + upto - 1])

\* p = (2 phase_h + 2 phase_i + g) mod 4 of rows h and i (0-based) of m
PhaseExponent(m, n, h, i) ==
    (2 * m[h][2 * n] + 2 * m[i][2 * n] + GSum(m, n, h, i, n)) % 4

\* the last call was rowsum(h, i) with 1-based h and i in [1, 2n]
RowsumInRange ==
    /\ last.op = "rowsum"
    /\ \A k \in {1, 2} : last.qubits[k] >= 1 /\ last.qubits[k] <= 2 * n_qubits

\* C14: rowsum(h, i), h and i in [1, 2n], replaces the X/Z bits of row h by
\* their XOR with row i, sets the phase bit of row h to p/2 with p computed
\* from both rows as they were before, and leaves the other rows unchanged
\* (stated for even p; C15 covers odd p).
C14_RowsumComposes ==
    (RowsumInRange
        /\ PhaseExponent(pre, n_qubits, last.qubits[1] - 1, last.qubits[2] - 1) % 2 = 0)
        => LET n == n_qubits
               h == last.qubits[1] - 1
               i == last.qubits[2] - 1
           IN  /\ err = "none"
               /\ \A c \in 0 .. (2 * n - 1) : matrix[h][c] = Xor(pre[h][c], pre[i][c])
               /\ matrix[h][2 * n] = PhaseExponent(pre, n, h, i) \div 2
               /\ \A r \in Rows(n) \ {h} : matrix[r] = pre[r]

\* C15: rowsum(h, i) whose phase exponent p comes out odd raises
\* PhaseInvariantViolation and writes nothing.
C15_OddPhaseRaises ==
    (RowsumInRange
        /\ PhaseExponent(pre, n_qubits, last.qubits[1] - 1, last.qubits[2] - 1) % 2 = 1)
        => (err = "PhaseInvariantViolation" /\ matrix = pre)

\* C16: in every state reached from a constructed Tableau(n), n >= 1, by any
\* calls, raising ones included, the matrix has exactly 2n rows and 2n+1
\* columns and every entry is 0 or 1.
C16_ShapeAndBits ==
    n_qubits >= 1 =>
        /\ DOMAIN matrix = 0 .. (2 * n_qubits - 1)
        /\ \A r \in DOMAIN matrix :
               /\ DOMAIN matrix[r] = 0 .. (2 * n_qubits)
               /\ \A c \in DOMAIN matrix[r] : matrix[r][c] \in {0, 1}

\* C16 witness: two calls have been made, the last one raised after it had
\* changed the matrix, and some phase bit is set.
C16_Witness ==
    /\ n_qubits >= 1 /\ calls = 2
    /\ err # "none" /\ matrix # pre
    /\ \E r \in Rows(n_qubits) : matrix[r][2 * n_qubits] = 1

\* C17: cnot(c, t), c # t in range, run as two sequential passes gives the
\* simultaneous update computed from the matrix before the call: in every
\* row X[c] becomes X[c] xor X[t] and Z[t] becomes Z[t] xor Z[c], while X[t],
\* Z[c], the phase bit and the columns of all other qubits are unchanged.
C17_CnotSimultaneous ==
    Applied("cnot") =>
        LET n == n_qubits
            c == last.qubits[1]
            t == last.qubits[2]
        IN  /\ err = "none"
            /\ \A r \in Rows(n) :
                   /\ matrix[r][c] = (pre[r][c] + pre[r][t]) % 2
                   /\ matrix[r][n + t] = (pre[r][n + t] + pre[r][n + c]) % 2
                   /\ \A k \in Cols(n) \ {c, n + t} : matrix[r][k] = pre[r][k]

\* C17 witness: cnot(c, t) has run on a matrix with a row whose X bit at t is
\* set, so that the first pass changed the X bit at c before the second pass
\* ran, and whose Z bit at c is set.
C17_Witness ==
    /\ Applied("cnot")
    /\ \E r \in Rows(n_qubits) :
           /\ pre[r][last.qubits[2]] = 1
           /\ pre[r][n_qubits + last.qubits[1]] = 1
           /\ matrix[r][last.qubits[1]] # pre[r][last.qubits[1]]
           /\ matrix[r][n_qubits + last.qubits[2]] # pre[r][n_qubits + last.qubits[2]]

\* C18: phase(q), q in range, applied twice in succession already gives back
\* the whole matrix, phase column included.
C18_PhaseTwice ==
    (Applied("phase") /\ reps = 2) => matrix = base

\* C18 witness: the second of two phase(q) on a matrix with a row holding X
\* at q and a row holding Y at q.
C18_Witness ==
    /\ Applied("phase") /\ reps = 2
    /\ \E r \in Rows(n_qubits) :
           base[r][last.qubits[1]] = 1 /\ base[r][n_qubits + last.qubits[1]] = 0
    /\ \E r \in Rows(n_qubits) :
           base[r][last.qubits[1]] = 1 /\ base[r][n_qubits + last.qubits[1]] = 1
    /\ pre # base

\* C19: two gate calls with in-range indices (control # target) that have no
\* qubit in common commute: applied in either order to any matrix they give
\* the same matrix, phase column included.
C19_DisjointGatesCommute ==
    (script = "pair" /\ calls = 2) =>
        /\ err = "none"
        /\ matrix = Run(prev, Run(last, base, n_qubits).m, n_qubits).m

\* C19 witness: a cnot and then a hadamard on a third qubit have been applied
\* to a matrix with a row that both of them changed, the hadamard flipping
\* its phase bit.
C19_Witness ==
    /\ script = "pair" /\ calls = 2
    /\ prev.op = "cnot" /\ last.op = "hadamard"
    /\ \E r \in Rows(n_qubits) :
           /\ pre[r] # base[r]
           /\ matrix[r][2 * n_qubits] # pre[r][2 * n_qubits]

====
